---- MODULE Spec2Model ----
(***************************************************************************)
(* TrimXProcessor (examples/trimx_python_example.py): the batch pipeline   *)
(* batch_extract_clips, the wrappers extract_clip / verify_clip around     *)
(* run_command, and the keyframe alignment find_optimal_cut_points.        *)
(*                                                                         *)
(* Times are counted in half seconds: the time 1.5 s is the integer 3, so  *)
(* that the default verification tolerance 0.5 s is the integer 1.         *)
(***************************************************************************)
EXTENDS Integers, Sequences, FiniteSets, TLC

VARIABLES
    segments,       \* batch_extract_clips: the list of ClipSegment
    mode,           \* the mode parameter of batch_extract_clips / extract_clip
    i,              \* batch_extract_clips: 1-based position of the loop
    pc,             \* position of the running call
    results,        \* batch_extract_clips: the dict, as its ordered items
    success,        \* the value returned by extract_clip: <<>> before it returns
    exc,            \* the exception that left the call, "none" while there is none
    log,            \* every subprocess.run, in order: spawns, exits, failed spawns
    clip,           \* extract_clip called directly: start_time, end_time, quality_crf
    keyframes,      \* find_optimal_cut_points: what analyze_keyframes returned
    desired,        \* find_optimal_cut_points: <<desired_start, desired_end>>
    tolerance,      \* find_optimal_cut_points: tolerance
    optimal         \* find_optimal_cut_points: the returned pair, <<>> before

vars == <<segments, mode, i, pc, results, success, exc, log, clip,
          keyframes, desired, tolerance, optimal>>

batchVars == <<segments, mode, i, results>>
optVars == <<keyframes, desired, tolerance, optimal>>

-----------------------------------------------------------------------------
(* Bounds of the model *)

MaxSegs == 3
MaxTime == 1
MaxKeyframes == 3
MaxTs == 4
MaxTol == 2

(* Program constants *)

\* verify_clip(..., tolerance: float = 0.5), in half seconds
VerifyTolerance == 1

TrimxPath == "trimx"
VideoPath == "sample.mp4"
OutputDir == "clips"
ClipPath == "clip.mp4"

Modes == {"auto", "copy", "reencode"}
Names == {"intro", "main1"}
None == <<>>

-----------------------------------------------------------------------------
(* Python values *)

\* str(x) of a float x that is a whole number of half seconds
PyStr(t) == ToString(t \div 2) \o (IF t % 2 = 0 THEN ".0" ELSE ".5")

\* str(n) of an int
PyStrInt(n) == ToString(n)

\* truth value of an Optional[int]: None and 0 are false
Truthy(q) == q /= None /\ q[1] /= 0

Abs(x) == IF x < 0 THEN -x ELSE x

\* os.path.join(output_dir, f"{name}.mp4")
OutputPath(output_dir, name) == output_dir \o "/" \o name \o ".mp4"

\* d[k] = v on a dict kept as the sequence of its items in insertion order
RECURSIVE DictSet(_, _, _)
DictSet(d, k, v) ==
    IF d = <<>> THEN << <<k, v>> >>
    ELSE IF Head(d)[1] = k THEN << <<k, v>> >> \o Tail(d)
    ELSE <<Head(d)>> \o DictSet(Tail(d), k, v)

DictKeys(d) == [n \in 1..Len(d) |-> d[n][1]]
DictHas(d, k) == \E n \in 1..Len(d) : d[n][1] = k
DictGet(d, k) == d[CHOOSE n \in 1..Len(d) : d[n][1] = k][2]

-----------------------------------------------------------------------------
(* run_command and its callers *)

\* cmd = [self.trimx_path] + args
RunCommandCmd(args) == <<TrimxPath>> \o args

\* the args list of extract_clip
ExtractArgs(video_path, start_time, end_time, output_path, m, quality_crf) ==
    << "clip", video_path,
       "--start", PyStr(start_time),
       "--end", PyStr(end_time),
       "--mode", m,
       "--output", output_path,
       "--overwrite", "yes" >>
    \o (IF Truthy(quality_crf)
        THEN <<"--quality-crf", PyStrInt(quality_crf[1])>> ELSE <<>>)

\* the args list of verify_clip
VerifyArgs(clip_path, expected_start, expected_end, tol) ==
    << "verify", clip_path,
       "--expected-start", PyStr(expected_start),
       "--expected-end", PyStr(expected_end),
       "--tolerance", PyStr(tol) >>

\* subprocess.run(cmd, check=True): the exception an exit status raises
ExitException(rc) == IF rc = 0 THEN "none" ELSE "CalledProcessError"

\* run_command re-raises both exceptions it handles
RunCommandRaises(e) == e

\* the except clause of extract_clip (variant: no except clause)
ExtractCatchesNoneMut(e) == FALSE
ExtractCatches(e) == e = "CalledProcessError"

\* the except clause of verify_clip
VerifyCatches(e) == e = "CalledProcessError"

ExitCodes == {0, 1}

Spawned(cmd, seg) == [ev |-> "spawn", seg |-> seg, cmd |-> cmd, rc |-> 0]
Exited(cmd, seg, rc) == [ev |-> "exit", seg |-> seg, cmd |-> cmd, rc |-> rc]
NotFound(cmd, seg) == [ev |-> "notfound", seg |-> seg, cmd |-> cmd, rc |-> 0]

Last(s) == s[Len(s)]

-----------------------------------------------------------------------------
(* batch_extract_clips *)

\* the windows of a batch: one with start < end, one with start > end
BatchWindows == {<<0, MaxTime>>, <<MaxTime, 0>>}

Segment(w, n) == [start_time |-> w[1], end_time |-> w[2], name |-> n]

SegmentValues == {Segment(w, n) : w \in BatchWindows, n \in Names}

SegmentLists == UNION {[1..n -> SegmentValues] : n \in 0..MaxSegs}

NoClip == [start_time |-> 0, end_time |-> 0, quality_crf |-> None]

OptIdle ==
    /\ keyframes = <<>>
    /\ desired = <<0, 0>>
    /\ tolerance = 0
    /\ optimal = <<>>

Init ==
    /\ segments \in SegmentLists
    /\ mode \in Modes
    /\ i = 1
    /\ pc = "extract"
    /\ results = <<>>
    /\ success = <<>>
    /\ exc = "none"
    /\ log = <<>>
    /\ clip = NoClip
    /\ OptIdle

\* the command extract_clip runs for segment n of the batch (quality_crf defaulted)
BatchExtractCmd(n) ==
    RunCommandCmd(ExtractArgs(VideoPath, segments[n].start_time, segments[n].end_time,
                              OutputPath(OutputDir, segments[n].name), mode, None))

\* the command verify_clip runs for segment n of the batch (tolerance defaulted)
BatchVerifyCmd(n) ==
    RunCommandCmd(VerifyArgs(OutputPath(OutputDir, segments[n].name),
                             segments[n].start_time, segments[n].end_time,
                             VerifyTolerance))

\* `if success:` of the loop body (variant: verify whatever extract_clip returned)
BatchVerifiesAlwaysMut(s) == TRUE
BatchVerifies(s) == s

\* what the loop records for a verified segment: results[name] = verify_success
\* (variant: results[name] = True)
BatchOutcomeTrueMut(verify_success) == TRUE
BatchOutcome(verify_success) == verify_success

\* the next position of the loop after the body ran for segment n
\* (variant: a failed segment is tried again)
BatchNextRetryMut(n, ok) == IF ok THEN n + 1 ELSE n
BatchNext(n, ok) == n + 1

\* the keys a dict gets from the assignments results[segment.name] = ...
\* (variant: results is rebuilt at every assignment)
BatchRecordLastOnlyMut(d, k, v) == << <<k, v>> >>
BatchRecord(d, k, v) == DictSet(d, k, v)

\* extract_clip has ended with exception e ("none": run_command returned)
BatchAfterExtract(e) ==
    IF e = "none" \/ ExtractCatches(e)
    THEN /\ success' = <<e = "none">>
         /\ exc' = exc
         /\ IF BatchVerifies(e = "none")
            THEN /\ pc' = "verify"
                 /\ UNCHANGED <<i, results>>
            ELSE /\ pc' = "extract"
                 /\ results' = BatchRecord(results, segments[i].name, FALSE)
                 /\ i' = BatchNext(i, FALSE)
    ELSE /\ pc' = "raised"
         /\ exc' = e
         /\ UNCHANGED <<i, results, success>>

\* verify_clip has ended with exception e ("none": run_command returned)
BatchAfterVerify(e) ==
    IF e = "none" \/ VerifyCatches(e)
    THEN /\ pc' = "extract"
         /\ results' = BatchRecord(results, segments[i].name, BatchOutcome(e = "none"))
         /\ i' = BatchNext(i, e = "none")
         /\ UNCHANGED <<exc, success>>
    ELSE /\ pc' = "raised"
         /\ exc' = e
         /\ UNCHANGED <<i, results, success>>

\* extract_clip of segment i: subprocess.run starts the child
BatchExtractSpawn ==
    /\ pc = "extract"
    /\ i <= Len(segments)
    /\ log' = Append(log, Spawned(BatchExtractCmd(i), i))
    /\ pc' = "extract_wait"
    /\ UNCHANGED <<segments, mode, i, results, success, exc, clip, optVars>>

\* extract_clip of segment i: the executable is not found
BatchExtractNotFound ==
    /\ pc = "extract"
    /\ i <= Len(segments)
    /\ log' = Append(log, NotFound(BatchExtractCmd(i), i))
    /\ BatchAfterExtract(RunCommandRaises("FileNotFoundError"))
    /\ UNCHANGED <<segments, mode, clip, optVars>>

\* extract_clip of segment i: the child exits
BatchExtractExit ==
    /\ pc = "extract_wait"
    /\ \E rc \in ExitCodes :
         /\ log' = Append(log, Exited(BatchExtractCmd(i), i, rc))
         /\ BatchAfterExtract(RunCommandRaises(ExitException(rc)))
    /\ UNCHANGED <<segments, mode, clip, optVars>>

\* verify_clip of segment i: subprocess.run starts the child
BatchVerifySpawn ==
    /\ pc = "verify"
    /\ log' = Append(log, Spawned(BatchVerifyCmd(i), i))
    /\ pc' = "verify_wait"
    /\ UNCHANGED <<segments, mode, i, results, success, exc, clip, optVars>>

\* verify_clip of segment i: the executable is not found
BatchVerifyNotFound ==
    /\ pc = "verify"
    /\ log' = Append(log, NotFound(BatchVerifyCmd(i), i))
    /\ BatchAfterVerify(RunCommandRaises("FileNotFoundError"))
    /\ UNCHANGED <<segments, mode, clip, optVars>>

\* verify_clip of segment i: the child exits
BatchVerifyExit ==
    /\ pc = "verify_wait"
    /\ \E rc \in ExitCodes :
         /\ log' = Append(log, Exited(BatchVerifyCmd(i), i, rc))
         /\ BatchAfterVerify(RunCommandRaises(ExitException(rc)))
    /\ UNCHANGED <<segments, mode, clip, optVars>>

\* the loop is over: return results
BatchReturn ==
    /\ pc = "extract"
    /\ i > Len(segments)
    /\ pc' = "done"
    /\ UNCHANGED <<segments, mode, i, results, success, exc, log, clip, optVars>>

Next ==
    \/ BatchExtractSpawn
    \/ BatchExtractNotFound
    \/ BatchExtractExit
    \/ BatchVerifySpawn
    \/ BatchVerifyNotFound
    \/ BatchVerifyExit
    \/ BatchReturn

Spec == Init /\ [][Next]_vars

-----------------------------------------------------------------------------
(* extract_clip called on its own, as demo_basic_usage and                  *)
(* demo_quality_comparison call it                                          *)

Crfs == {None, <<0>>, <<23>>}

BatchIdle ==
    /\ segments = <<>>
    /\ i = 1
    /\ results = <<>>

InitExtract ==
    /\ clip \in [start_time : 0..MaxTime, end_time : 0..MaxTime, quality_crf : Crfs]
    /\ mode \in Modes
    /\ pc = "extract"
    /\ success = <<>>
    /\ exc = "none"
    /\ log = <<>>
    /\ BatchIdle
    /\ OptIdle

ClipCmd ==
    RunCommandCmd(ExtractArgs(VideoPath, clip.start_time, clip.end_time,
                              ClipPath, mode, clip.quality_crf))

\* the try/except around run_command in extract_clip, given how run_command ended
ClipAfterRun(e) ==
    IF e = "none" \/ ExtractCatches(e)
    THEN /\ success' = <<e = "none">>
         /\ pc' = "done"
         /\ exc' = exc
    ELSE /\ pc' = "raised"
         /\ exc' = e
         /\ success' = success

ClipSpawn ==
    /\ pc = "extract"
    /\ log' = Append(log, Spawned(ClipCmd, 0))
    /\ pc' = "extract_wait"
    /\ UNCHANGED <<batchVars, success, exc, clip, optVars>>

ClipNotFound ==
    /\ pc = "extract"
    /\ log' = Append(log, NotFound(ClipCmd, 0))
    /\ ClipAfterRun(RunCommandRaises("FileNotFoundError"))
    /\ UNCHANGED <<batchVars, clip, optVars>>

ClipExit ==
    /\ pc = "extract_wait"
    /\ \E rc \in ExitCodes :
         /\ log' = Append(log, Exited(ClipCmd, 0, rc))
         /\ ClipAfterRun(RunCommandRaises(ExitException(rc)))
    /\ UNCHANGED <<batchVars, clip, optVars>>

NextExtract ==
    \/ ClipSpawn
    \/ ClipNotFound
    \/ ClipExit

SpecExtract == InitExtract /\ [][NextExtract]_vars

-----------------------------------------------------------------------------
(* find_optimal_cut_points *)

Keyframe(t) == [timestamp |-> t]

KeyframeLists == UNION {[1..n -> {Keyframe(t) : t \in 0..MaxTs}] : n \in 0..MaxKeyframes}

\* min(keyframes, key=...): the scan keeps the first item of least key
\* (variant: the last item of least key)
RECURSIVE MinScanLastMut(_, _, _, _)
MinScanLastMut(kfs, t, n, best) ==
    IF n > Len(kfs) THEN best
    ELSE MinScanLastMut(kfs, t, n + 1,
                 IF Abs(kfs[n].timestamp - t) <= Abs(kfs[best].timestamp - t)
                 THEN n ELSE best)

RECURSIVE MinScan(_, _, _, _)
MinScan(kfs, t, n, best) ==
    IF n > Len(kfs) THEN best
    ELSE MinScan(kfs, t, n + 1,
                 IF Abs(kfs[n].timestamp - t) < Abs(kfs[best].timestamp - t)
                 THEN n ELSE best)

NearestKeyframe(kfs, t) == kfs[MinScan(kfs, t, 2, 1)]

\* the check of a keyframe against the tolerance (variants: no check; no abs)
SnapAlwaysMut(kf, t, tol) == kf.timestamp
SnapSignedMut(kf, t, tol) == IF kf.timestamp - t <= tol THEN kf.timestamp ELSE t
Snap(kf, t, tol) == IF Abs(kf.timestamp - t) <= tol THEN kf.timestamp ELSE t

FindOptimalCutPoints(kfs, desired_start, desired_end, tol) ==
    IF kfs = <<>>
    THEN <<desired_start, desired_end>>
    ELSE << Snap(NearestKeyframe(kfs, desired_start), desired_start, tol),
            Snap(NearestKeyframe(kfs, desired_end), desired_end, tol) >>

InitOpt ==
    /\ keyframes \in KeyframeLists
    /\ desired \in (0..MaxTs) \X (0..MaxTs)
    /\ tolerance \in (-1)..MaxTol
    /\ optimal = <<>>
    /\ pc = "optimize"
    /\ mode = "auto"
    /\ success = <<>>
    /\ exc = "none"
    /\ log = <<>>
    /\ clip = NoClip
    /\ BatchIdle

Optimize ==
    /\ pc = "optimize"
    /\ optimal' = FindOptimalCutPoints(keyframes, desired[1], desired[2], tolerance)
    /\ pc' = "done"
    /\ UNCHANGED <<batchVars, mode, success, exc, log, clip, keyframes, desired, tolerance>>

NextOpt == Optimize

SpecOpt == InitOpt /\ [][NextOpt]_vars

-----------------------------------------------------------------------------
(* Properties of batch_extract_clips (Spec) *)

LogIdx == 1..Len(log)
SegIdx == 1..Len(segments)

IsClip(e) == e.cmd[2] = "clip"
IsVerify(e) == e.cmd[2] = "verify"

\* subprocess.run was called: the child started, or could not be found
Invoked(e) == e.ev \in {"spawn", "notfound"}

ExtractFailed(k) == log[k].ev = "exit" /\ IsClip(log[k]) /\ log[k].rc /= 0
ExtractOk(n) == \E k \in LogIdx : log[k].ev = "exit" /\ IsClip(log[k])
                                    /\ log[k].seg = n /\ log[k].rc = 0
VerifyOk(n) == \E k \in LogIdx : log[k].ev = "exit" /\ IsVerify(log[k])
                                   /\ log[k].seg = n /\ log[k].rc = 0

UniqueNames == \A a, b \in SegIdx : a /= b => segments[a].name /= segments[b].name

\* the names of the segments, each at its first place in the list
FirstNames ==
    LET first(n) == \A m \in 1..(n - 1) : segments[m].name /= segments[n].name
        F[n \in 0..Len(segments)] ==
            IF n = 0 THEN <<>>
            ELSE IF first(n) THEN Append(F[n - 1], segments[n].name) ELSE F[n - 1]
    IN F[Len(segments)]

\* C1: a segment whose extraction exits non-zero never has verify invoked for
\* it, its outcome is recorded as false (and stays false until a later segment
\* of the same name is recorded), the next call of the external tool, if any,
\* is the extraction of the next segment, and when the batch returns every
\* later segment was extracted and has an outcome.
C1_FailedExtractIsolated ==
    \A k \in LogIdx : ExtractFailed(k) =>
        LET n == log[k].seg IN
        /\ ~ \E j \in LogIdx : IsVerify(log[j]) /\ log[j].seg = n
        /\ DictHas(results, segments[n].name)
        /\ (\A m \in (n + 1)..(i - 1) : segments[m].name /= segments[n].name)
              => DictGet(results, segments[n].name) = FALSE
        /\ k = Len(log) =>
              /\ i = n + 1
              /\ exc = "none"
              /\ pc = (IF n = Len(segments) /\ pc = "done" THEN "done" ELSE "extract")
        /\ k < Len(log) => (IsClip(log[k + 1]) /\ Invoked(log[k + 1])
                             /\ log[k + 1].seg = n + 1)
        /\ pc = "done" =>
              \A m \in (n + 1)..Len(segments) :
                  /\ \E j \in LogIdx : log[j].ev = "spawn" /\ IsClip(log[j])
                                         /\ log[j].seg = m
                  /\ DictHas(results, segments[m].name)

\* three segments, the 2nd failed extraction, the 1st and the 3rd were verified
C1_Witness ==
    /\ pc = "done"
    /\ Len(segments) = 3
    /\ UniqueNames = FALSE
    /\ segments[1].name /= segments[2].name
    /\ \E k \in LogIdx : ExtractFailed(k) /\ log[k].seg = 2
    /\ VerifyOk(1)
    /\ VerifyOk(3)
    /\ DictGet(results, segments[2].name) = (segments[3].name = segments[2].name)

\* C2: with unique names, the outcome recorded for a segment is true exactly
\* when its extraction exited 0 and the verification that followed exited 0;
\* every verify command carries the segment's own start_time and end_time and
\* the tolerance 0.5; a verify that exits non-zero leaves outcome false and no
\* exception.
C2_OutcomeIsExtractAndVerify ==
    /\ UniqueNames =>
          \A n \in 1..(i - 1) :
              /\ DictHas(results, segments[n].name)
              /\ DictGet(results, segments[n].name) = (ExtractOk(n) /\ VerifyOk(n))
    /\ \A k \in LogIdx : IsVerify(log[k]) =>
          /\ ExtractOk(log[k].seg)
          /\ log[k].cmd[3] = OutputDir \o "/" \o segments[log[k].seg].name \o ".mp4"
          /\ log[k].cmd[4] = "--expected-start"
          /\ log[k].cmd[5] = PyStr(segments[log[k].seg].start_time)
          /\ log[k].cmd[6] = "--expected-end"
          /\ log[k].cmd[7] = PyStr(segments[log[k].seg].end_time)
          /\ log[k].cmd[8] = "--tolerance"
          /\ log[k].cmd[9] = "0.5"
    /\ (log /= <<>> /\ Last(log).ev = "exit" /\ IsVerify(Last(log)) /\ Last(log).rc /= 0)
          => /\ pc \in {"extract", "done"}
             /\ exc = "none"
             /\ i = Last(log).seg + 1
             /\ DictGet(results, segments[Last(log).seg].name) = FALSE

\* two segments of different names, both extracted, one verified and one not
C2_Witness ==
    /\ pc = "done"
    /\ Len(segments) = 2
    /\ UniqueNames
    /\ ExtractOk(1) /\ VerifyOk(1)
    /\ ExtractOk(2) /\ ~ VerifyOk(2)
    /\ segments[1].start_time /= segments[1].end_time
    /\ DictGet(results, segments[1].name) = TRUE
    /\ DictGet(results, segments[2].name) = FALSE

\* C3: when the batch returns, the keys of the result are exactly the names of
\* the input segments, in the order the names first occur in the input, and
\* with unique names there are as many entries as segments (none for an empty
\* list).
C3_KeysAreSegmentNames ==
    pc = "done" =>
        /\ DictKeys(results) = FirstNames
        /\ {results[n][1] : n \in 1..Len(results)} = {segments[n].name : n \in SegIdx}
        /\ UniqueNames => Len(results) = Len(segments)
        /\ segments = <<>> => results = <<>>

\* a batch of three segments with a repeated name has returned two keys
C3_Witness ==
    /\ pc = "done"
    /\ Len(segments) = 3
    /\ segments[1].name = segments[3].name
    /\ segments[2].name /= segments[1].name
    /\ DictKeys(results) = <<segments[1].name, segments[2].name>>

\* the calls of subprocess.run, in order
Invocations == SelectSeq(log, Invoked)

\* C9: the external tool is invoked for segment 1, then segment 2, and so on,
\* one extract followed by at most one verify per segment and none twice; every
\* child exits before the next call (the log has a child's exit right after its
\* spawn); verify follows only a successful extract of the same segment.
C9_SequentialNoRetry ==
    LET inv == Invocations
        n == Len(inv)
    IN
    /\ \A k \in LogIdx :
          /\ log[k].ev = "spawn" /\ k < Len(log) =>
                (log[k + 1].ev = "exit" /\ log[k + 1].cmd = log[k].cmd
                 /\ log[k + 1].seg = log[k].seg)
          /\ log[k].ev = "exit" =>
                (k > 1 /\ log[k - 1].ev = "spawn" /\ log[k - 1].cmd = log[k].cmd)
          /\ log[k].ev = "spawn" /\ k = Len(log) => pc \in {"extract_wait", "verify_wait"}
    /\ \A a, b \in 1..n :
          /\ a < b => inv[a].seg <= inv[b].seg
          /\ (a /= b /\ inv[a].seg = inv[b].seg) => IsClip(inv[a]) /= IsClip(inv[b])
          /\ (a < b /\ inv[a].seg = inv[b].seg)
                => (IsClip(inv[a]) /\ b = a + 1 /\ ExtractOk(inv[a].seg))
    /\ \A a \in 1..n :
          /\ a = 1 => (IsClip(inv[a]) /\ inv[a].seg = 1)
          /\ (a > 1 /\ IsClip(inv[a])) => inv[a].seg = inv[a - 1].seg + 1
    /\ pc = "done" =>
          \A m \in SegIdx : \E a \in 1..n : IsClip(inv[a]) /\ inv[a].seg = m

\* three segments: extract and verify, a failed extract, extract and a failed verify
C9_Witness ==
    /\ pc = "done"
    /\ Len(segments) = 3
    /\ Len(log) = 10
    /\ VerifyOk(1)
    /\ ~ ExtractOk(2)
    /\ ExtractOk(3) /\ ~ VerifyOk(3)

-----------------------------------------------------------------------------
(* Properties of extract_clip (SpecExtract) *)

HasQualityArg(cmd) == \E k \in 1..Len(cmd) : cmd[k] = "--quality-crf"

\* C5: the external command carries a quality argument only when quality_crf is
\* present and the mode is re-encode.
C5_QualityOnlyWhenReencode ==
    \A k \in LogIdx :
        HasQualityArg(log[k].cmd) => (clip.quality_crf /= None /\ mode = "reencode")

\* C6: a window with start_time >= end_time is rejected before the external
\* tool is invoked.
C6_InvalidWindowNeverInvoked ==
    clip.start_time >= clip.end_time =>
        /\ log = <<>>
        /\ success /= <<TRUE>>

\* C7 as claimed: whatever error subprocess.run raises, a non-zero exit or an
\* executable that cannot be started, extract_clip returns false and raises
\* nothing.
C7_NeverRaises ==
    /\ pc /= "raised"
    /\ (log /= <<>> /\ (Last(log).ev = "notfound"
                        \/ (Last(log).ev = "exit" /\ Last(log).rc /= 0)))
          => (pc = "done" /\ success = <<FALSE>>)

\* C7: extract_clip turns a non-zero exit of the external process into the
\* return value false and an exit 0 into true, raising nothing; the only
\* exception that leaves it is the FileNotFoundError of a tool that could not
\* be started.
C7_NonZeroExitReturnsFalse ==
    /\ (log /= <<>> /\ Last(log).ev = "exit")
          => (pc = "done" /\ exc = "none" /\ success = <<Last(log).rc = 0>>)
    /\ pc = "raised"
          => (exc = "FileNotFoundError" /\ Last(log).ev = "notfound" /\ success = <<>>)

\* the external process has exited non-zero and extract_clip has returned false
C7_Witness ==
    /\ pc = "done"
    /\ Len(log) = 2
    /\ Last(log).ev = "exit"
    /\ Last(log).rc = 1
    /\ success = <<FALSE>>

-----------------------------------------------------------------------------
(* Properties of find_optimal_cut_points (SpecOpt) *)

Dist(kf, t) == Abs(kf.timestamp - t)

\* the keyframe of least distance to t, the first of the sequence on a tie
RefNearest(kfs, t) ==
    kfs[CHOOSE n \in 1..Len(kfs) :
            /\ \A m \in 1..Len(kfs) : Dist(kfs[n], t) <= Dist(kfs[m], t)
            /\ \A m \in 1..(n - 1) : Dist(kfs[m], t) > Dist(kfs[n], t)]

\* C4: with no keyframes the desired window is returned unchanged; otherwise
\* each boundary is, independently, the timestamp of the keyframe of least
\* distance to the desired time (the first on a tie) when that distance is
\* <= tolerance, and the desired time when it is > tolerance.
C4_OptimizeIsReference ==
    pc = "done" =>
        IF keyframes = <<>>
        THEN optimal = desired
        ELSE /\ Len(optimal) = 2
             /\ \A b \in {1, 2} :
                   LET near == RefNearest(keyframes, desired[b]) IN
                   /\ Dist(near, desired[b]) <= tolerance => optimal[b] = near.timestamp
                   /\ Dist(near, desired[b]) > tolerance => optimal[b] = desired[b]

\* two keyframes tie for the start, the first one is taken although it is the
\* later one; the end falls back to the desired time
C4_Witness ==
    /\ pc = "done"
    /\ Len(keyframes) = 2
    /\ keyframes[1].timestamp = desired[1] + 1
    /\ keyframes[2].timestamp = desired[1] - 1
    /\ tolerance = 1
    /\ optimal[1] = desired[1] + 1
    /\ desired[2] > desired[1] + 2
    /\ optimal[2] = desired[2]

\* C8 as claimed: the returned window has start < end whenever the desired
\* window has and the tolerance is non-negative.
C8_StartBeforeEnd ==
    (pc = "done" /\ desired[1] < desired[2] /\ tolerance >= 0)
        => optimal[1] < optimal[2]

\* C8: the returned window has start <= end whenever the desired window has
\* start < end and the tolerance is non-negative; start = end only when both
\* boundaries are the timestamp of one keyframe within the tolerance of both
\* desired times.
C8_StartNotAfterEnd ==
    (pc = "done" /\ desired[1] < desired[2] /\ tolerance >= 0)
        => /\ optimal[1] <= optimal[2]
           /\ optimal[1] = optimal[2] =>
                 \E n \in 1..Len(keyframes) :
                     /\ keyframes[n].timestamp = optimal[1]
                     /\ Dist(keyframes[n], desired[1]) <= tolerance
                     /\ Dist(keyframes[n], desired[2]) <= tolerance

\* both boundaries of a window two units long moved to the keyframe in between
C8_Witness ==
    /\ pc = "done"
    /\ desired[2] = desired[1] + 2
    /\ tolerance = 1
    /\ optimal = <<desired[1] + 1, desired[1] + 1>>

\* C10: with a non-negative tolerance each returned boundary is within the
\* tolerance of the desired time, and is the desired time or the timestamp of
\* a keyframe of the sequence.
C10_OffsetWithinTolerance ==
    (pc = "done" /\ tolerance >= 0) =>
        \A b \in {1, 2} :
            /\ Abs(optimal[b] - desired[b]) <= tolerance
            /\ \/ optimal[b] = desired[b]
               \/ \E n \in 1..Len(keyframes) : keyframes[n].timestamp = optimal[b]

\* the start moved by exactly the tolerance to a keyframe; the nearest keyframe
\* of the end is farther than the tolerance and the end stayed
C10_Witness ==
    /\ pc = "done"
    /\ tolerance = 1
    /\ keyframes /= <<>>
    /\ optimal[1] = desired[1] - 1
    /\ optimal[2] = desired[2]
    /\ \A n \in 1..Len(keyframes) : Dist(keyframes[n], desired[2]) > tolerance

====
